---- MODULE Spec2Model ----
(***************************************************************************)
(* Indicator resolution subsystem of the ISTAC assistant:                  *)
(*   src/src/data/ids_cache.py   IndicatorCache and its loaders            *)
(*   src/src/data/resolver.py    resolve_indicator and the selection       *)
(*                               session                                   *)
(*   src/src/data/validator.py   IndicatorValidator                        *)
(*   src/src/data/dimensions.py  detect_dimensions and analyze_query       *)
(*   src/src/llm/tools.py        get_indicator_info and get_indicator_data *)
(*                                                                         *)
(* A Python str is a sequence of characters; a character is a one-token    *)
(* string.  Three tokens stand for non-ASCII characters:                   *)
(*   "o'"  U+00F3 (o with acute, precomposed)                              *)
(*   "O'"  U+00D3 (O with acute, precomposed)                              *)
(*   "'"   U+0301 (combining acute accent, category Mn)                    *)
(* An Optional value is a sequence of length at most one: None is << >>.   *)
(***************************************************************************)
EXTENDS Integers, Sequences, FiniteSets, TLC

VARIABLES
    indicators,   \* IndicatorCache._indicators: dict in insertion order
    codes,        \* IndicatorCache._codes
    loaded,       \* IndicatorCache._loaded
    from_tsv,     \* IndicatorCache._from_tsv
    pending,      \* resolver._pending_selection (Optional[SelectionState])
    call,         \* the last call made, what it read and what it returned
    trace,        \* the selection calls since the last start_selection
    lock,         \* IndicatorCache._lock: the thread that holds it, 0 when free
    threads       \* the calls running concurrently: each thread's position

vars == <<indicators, codes, loaded, from_tsv, pending, call, trace, lock, threads>>

None == << >>
Some(x) == <<x>>

\* ------------------------------------------------------------------------
\* Characters
\* ------------------------------------------------------------------------

AsciiUpper == <<"A","B","C","D","E","F","G","H","I","J","K","L","M",
                "N","O","P","Q","R","S","T","U","V","W","X","Y","Z">>
AsciiLower == <<"a","b","c","d","e","f","g","h","i","j","k","l","m",
                "n","o","p","q","r","s","t","u","v","w","x","y","z">>
UpperLetters == AsciiUpper \o <<"O'", "U'">>
LowerLetters == AsciiLower \o <<"o'", "u'">>
AsciiDigits == {"0","1","2","3","4","5","6","7","8","9"}
\* "^2" is U+00B2 (superscript two): str.isdigit() accepts it, int() does not.
Digits == AsciiDigits \cup {"^2"}
Mn == {"'"}
Whitespace == {" "}

PosIn(c, s) == CHOOSE i \in 1..Len(s) : s[i] = c
InSeq(c, s) == \E i \in 1..Len(s) : s[i] = c

Chars ==
    {UpperLetters[i] : i \in 1..Len(UpperLetters)} \cup {LowerLetters[i] : i \in 1..Len(LowerLetters)}
    \cup Digits \cup Mn \cup Whitespace \cup {"_", ","}

\* str.upper() / str.lower() on one character.
UpperMap ==
    [c \in Chars |-> IF InSeq(c, LowerLetters) THEN UpperLetters[PosIn(c, LowerLetters)] ELSE c]
LowerMap ==
    [c \in Chars |-> IF InSeq(c, UpperLetters) THEN LowerLetters[PosIn(c, UpperLetters)] ELSE c]
UpperCh(c) == UpperMap[c]
LowerCh(c) == LowerMap[c]

\* unicodedata.normalize('NFD', c) on one character.
NFDCh(c) ==
    IF c = "o'" THEN <<"o", "'">>
    ELSE IF c = "O'" THEN <<"O", "'">>
    ELSE IF c = "u'" THEN <<"u", "'">>
    ELSE IF c = "U'" THEN <<"U", "'">>
    ELSE <<c>>

\* ord(c): Python compares strings by code point.
Ord(c) ==
    CASE c = " " -> 32
      [] c \in AsciiDigits -> 48 + (CHOOSE d \in 0..9 : ToString(d) = c)
      [] InSeq(c, AsciiUpper) -> 64 + PosIn(c, AsciiUpper)
      [] c = "_" -> 95
      [] InSeq(c, AsciiLower) -> 96 + PosIn(c, AsciiLower)
      [] c = "^2" -> 178
      [] c = "O'" -> 211
      [] c = "U'" -> 218
      [] c = "o'" -> 243
      [] c = "u'" -> 250
      [] c = "'" -> 769

\* ------------------------------------------------------------------------
\* Strings
\* ------------------------------------------------------------------------

RECURSIVE Concat(_)
Concat(ss) == IF ss = << >> THEN << >> ELSE Head(ss) \o Concat(Tail(ss))

Upper(s) == [i \in 1..Len(s) |-> UpperCh(s[i])]
Lower(s) == [i \in 1..Len(s) |-> LowerCh(s[i])]
NFD(s) == Concat([i \in 1..Len(s) |-> NFDCh(s[i])])
IsDigitStr(s) == Len(s) > 0 /\ \A i \in 1..Len(s) : s[i] \in Digits

RECURSIVE LStrip(_)
LStrip(s) == IF s # << >> /\ Head(s) \in Whitespace THEN LStrip(Tail(s)) ELSE s
RECURSIVE RStrip(_)
RStrip(s) ==
    IF s # << >> /\ s[Len(s)] \in Whitespace THEN RStrip(SubSeq(s, 1, Len(s) - 1)) ELSE s
Strip(s) == RStrip(LStrip(s))

\* a in b (substring test)
Contains(b, a) ==
    \E i \in 0..(Len(b) - Len(a)) : SubSeq(b, i + 1, i + Len(a)) = a
StartsWith(s, p) == Len(p) <= Len(s) /\ SubSeq(s, 1, Len(p)) = p

\* s.split(sep) for a one-character separator.
RECURSIVE Split(_, _)
Split(s, sep) ==
    IF ~InSeq(sep, s) THEN <<s>>
    ELSE LET i == CHOOSE k \in 1..Len(s) :
                      s[k] = sep /\ \A j \in 1..(k - 1) : s[j] # sep
         IN <<SubSeq(s, 1, i - 1)>> \o Split(SubSeq(s, i + 1, Len(s)), sep)

\* " ".join(ss)
RECURSIVE Join(_)
Join(ss) ==
    IF ss = << >> THEN << >>
    ELSE IF Len(ss) = 1 THEN ss[1]
    ELSE ss[1] \o <<" ">> \o Join(Tail(ss))

\* int(s) accepts a non-empty string of ASCII digits (of the characters
\* modelled here); on anything else it raises ValueError.
IntParses(s) == Len(s) > 0 /\ \A i \in 1..Len(s) : s[i] \in AsciiDigits
RECURSIVE ToInt(_)
ToInt(s) ==
    IF s = << >> THEN 0
    ELSE 10 * ToInt(SubSeq(s, 1, Len(s) - 1))
         + (CHOOSE d \in 0..9 : ToString(d) = s[Len(s)])

\* a < b for Python strings (lexicographic by code point).
RECURSIVE StrLess(_, _)
StrLess(a, b) ==
    IF b = << >> THEN FALSE
    ELSE IF a = << >> THEN TRUE
    ELSE IF Head(a) # Head(b) THEN Ord(Head(a)) < Ord(Head(b))
    ELSE StrLess(Tail(a), Tail(b))

Take(s, n) == SubSeq(s, 1, IF n < Len(s) THEN n ELSE Len(s))

\* ------------------------------------------------------------------------
\* IndicatorCache
\* ------------------------------------------------------------------------

\* d.get(k, "") on an input dict.
Get(d, k) == IF k \in DOMAIN d THEN d[k] ELSE << >>

IndicatorInfo(code, title, subject) ==
    [code |-> code, title |-> title, subject |-> subject]

RemoveMn(s) == SelectSeq(s, LAMBDA c : c \notin Mn)

\* Mutant of normalize_code: the combining marks are kept.
normalize_code_KeepsMarks(code) == Strip(Upper(NFD(code)))

normalize_code(code) == Strip(Upper(RemoveMn(NFD(code))))

\* The cache object as one value.
Cache == [indicators |-> indicators, codes |-> codes,
          loaded |-> loaded, from_tsv |-> from_tsv]

EmptyCache == [indicators |-> << >>, codes |-> {}, loaded |-> FALSE, from_tsv |-> FALSE]

\* self._indicators[code] = info on an insertion-ordered dict.
DictSet(d, info) ==
    IF \E i \in 1..Len(d) : d[i].code = info.code
    THEN [i \in 1..Len(d) |-> IF d[i].code = info.code THEN info ELSE d[i]]
    ELSE Append(d, info)

DictGet(d, key) ==
    IF \E i \in 1..Len(d) : d[i].code = key
    THEN Some(d[CHOOSE i \in 1..Len(d) : d[i].code = key])
    ELSE None

\* Mutant of LoadOne: the record keeps the code as it was given.
LoadOne_RawCode(c, ind) ==
    LET code == normalize_code(Get(ind, "code"))
    IN IF code # << >>
       THEN [c EXCEPT !.indicators =
                          DictSet(@, IndicatorInfo(Get(ind, "code"), Get(ind, "title"),
                                                   Get(ind, "subject"))),
                      !.codes = @ \cup {code}]
       ELSE c

\* The body of the for loop of load, for one input dict.
LoadOne(c, ind) ==
    LET code == normalize_code(Get(ind, "code"))
    IN IF code # << >>
       THEN [c EXCEPT !.indicators =
                          DictSet(@, IndicatorInfo(code, Get(ind, "title"),
                                                   Get(ind, "subject"))),
                      !.codes = @ \cup {code}]
       ELSE c

RECURSIVE LoadAll(_, _)
LoadAll(c, inds) ==
    IF inds = << >> THEN c ELSE LoadAll(LoadOne(c, Head(inds)), Tail(inds))

\* Mutant of LoadIgnored: the guard on a partial load is missing.
LoadIgnored_Never(c, arg_from_tsv) == FALSE

\* The guard of load: a partial load after a TSV load is ignored.
LoadIgnored(c, arg_from_tsv) == c.from_tsv /\ ~arg_from_tsv

\* IndicatorCache.load, run under self._lock as one step.
load(c, inds, arg_from_tsv) ==
    IF LoadIgnored(c, arg_from_tsv) THEN c
    ELSE [LoadAll(c, inds) EXCEPT !.loaded = TRUE,
                                  !.from_tsv = @ \/ arg_from_tsv]

is_loaded(c) == c.loaded

is_valid(c, code) == normalize_code(code) \in c.codes

\* Mutant of get_info: the key is folded to lower case.
get_info_Lower(c, code) == DictGet(c.indicators, Lower(code))

get_info(c, code) == DictGet(c.indicators, Upper(code))

count(c) == Cardinality(c.codes)

\* ------------------------------------------------------------------------
\* difflib.get_close_matches, as find_similar uses it
\* ------------------------------------------------------------------------

CutoffNum == 4
CutoffDen == 10

RECURSIVE CommonLen(_, _, _, _, _, _)
CommonLen(a, i, ahi, b, j, bhi) ==
    IF i > ahi \/ j > bhi THEN 0
    ELSE IF a[i] # b[j] THEN 0
    ELSE 1 + CommonLen(a, i + 1, ahi, b, j + 1, bhi)

\* SequenceMatcher.find_longest_match without junk: the longest block, the
\* one starting earliest in a and then earliest in b; <<0, 0, 0>> if none.
LongestMatch(a, alo, ahi, b, blo, bhi) ==
    LET starts == {p \in (alo..ahi) \X (blo..bhi) : a[p[1]] = b[p[2]]}
        K == [p \in starts |-> CommonLen(a, p[1], ahi, b, p[2], bhi)]
    IN IF starts = {} THEN <<0, 0, 0>>
       ELSE LET best == CHOOSE p \in starts :
                            \A q \in starts :
                                \/ K[p] > K[q]
                                \/ K[p] = K[q] /\ p[1] < q[1]
                                \/ K[p] = K[q] /\ p[1] = q[1] /\ p[2] <= q[2]
            IN <<best[1], best[2], K[best]>>

\* The sum of the sizes of get_matching_blocks().
RECURSIVE Matches(_, _, _, _, _, _)
Matches(a, alo, ahi, b, blo, bhi) ==
    LET m == LongestMatch(a, alo, ahi, b, blo, bhi)
    IN IF m[3] = 0 THEN 0
       ELSE m[3] + Matches(a, alo, m[1] - 1, b, blo, m[2] - 1)
                 + Matches(a, m[1] + m[3], ahi, b, m[2] + m[3], bhi)

\* ratio() = 2.0 * M / T as the pair <<2M, T>>; 1.0 when both are empty.
Ratio(a, b) ==
    IF Len(a) + Len(b) = 0 THEN <<1, 1>>
    ELSE <<2 * Matches(a, 1, Len(a), b, 1, Len(b)), Len(a) + Len(b)>>

RatioGeq(r, num, den) == r[1] * den >= num * r[2]
RatioLess(r1, r2) == r1[1] * r2[2] < r2[1] * r1[2]

\* The permutations of a finite set, as sequences.
RECURSIVE Perms(_)
Perms(S) ==
    IF S = {} THEN {<< >>}
    ELSE UNION {{<<x>> \o p : p \in Perms(S \ {x})} : x \in S}

\* sorted(result, reverse=True) for result the (score, x) pairs: tuples
\* compare by score and then by x, so equal scores put the larger x first.
RECURSIVE SortedDesc(_, _)
SortedDesc(S, score) ==
    IF S = {} THEN << >>
    ELSE LET top == CHOOSE x \in S :
                        \A y \in S \ {x} :
                            \/ RatioLess(score[y], score[x])
                            \/ ~RatioLess(score[x], score[y]) /\ StrLess(y, x)
         IN <<top>> \o SortedDesc(S \ {top}, score)

\* get_close_matches(word, possibilities, n, cutoff) for n > 0: the
\* possibilities x with SequenceMatcher(a=x, b=word).ratio() >= cutoff
\* (real_quick_ratio and quick_ratio are upper bounds of ratio), the n
\* largest (score, x) first.
get_close_matches(word, possibilities, n) ==
    LET score == [x \in possibilities |-> Ratio(x, word)]
        close == {x \in possibilities : RatioGeq(score[x], CutoffNum, CutoffDen)}
    IN Take(SortedDesc(close, score), n)

\* ------------------------------------------------------------------------
\* IndicatorCache.find_similar and IndicatorCache.search
\* ------------------------------------------------------------------------

Ok(v) == [raised |-> FALSE, exc |-> "", value |-> v]
Raise(e) == [raised |-> TRUE, exc |-> e, value |-> << >>]

InfoOf(c, key) == DictGet(c.indicators, key)[1]

\* The keys find_similar collects in its first phase.
PartialMatches(c, code_upper) ==
    {known \in c.codes : Contains(known, code_upper) \/ Contains(code_upper, known)}

\* Every list find_similar can return (or the exception it raises): the
\* first phase iterates a set, whose order is not fixed.
find_similar(c, code, limit) ==
    LET code_upper == Upper(code)
        partial == PartialMatches(c, code_upper)
    IN IF partial # {}
       THEN {Ok(Take([i \in 1..Len(f) |-> InfoOf(c, f[i])], limit)) : f \in Perms(partial)}
       ELSE IF ~(limit > 0)
       THEN {Raise("ValueError")}
       ELSE LET similar == get_close_matches(code_upper, c.codes, limit)
            IN {Ok(Take([i \in 1..Len(similar) |-> InfoOf(c, similar[i])], limit))}

SearchHit(info, query_lower) ==
    \/ Contains(Lower(info.code), query_lower)
    \/ Contains(Lower(info.title), query_lower)
    \/ Contains(Lower(info.subject), query_lower)

RECURSIVE SearchLoop(_, _, _, _)
SearchLoop(rest, results, query_lower, limit) ==
    IF rest = << >> THEN results
    ELSE IF SearchHit(Head(rest), query_lower)
    THEN LET r == Append(results, Head(rest))
         IN IF Len(r) >= limit THEN r
            ELSE SearchLoop(Tail(rest), r, query_lower, limit)
    ELSE SearchLoop(Tail(rest), results, query_lower, limit)

search(c, query, limit) == SearchLoop(c.indicators, << >>, Lower(query), limit)

\* ------------------------------------------------------------------------
\* Loading the singleton cache from its sources
\* ------------------------------------------------------------------------

\* What a loader reads when it runs: the TSV file (missing, unreadable or
\* its rows) and the answer of the API (an exception or its items).
Env(t, a) == [tsv |-> t, api |-> a]

ApiLimit == 500

\* load_cache_from_api
load_cache_from_api(c, env) ==
    IF is_loaded(c) THEN c
    ELSE IF ~env.api.ok THEN c
    ELSE load(c, Take(env.api.items, ApiLimit), FALSE)

\* The rows load_cache_from_tsv keeps, as the dicts it passes to load.
TsvIndicators(rows) ==
    LET Keep(row) == Strip(row.code) # << >> /\ Upper(Strip(row.code)) # <<"C","O","D","E">>
        kept == SelectSeq(rows, Keep)
    IN [i \in 1..Len(kept) |->
           [code |-> Strip(kept[i].code), title |-> Strip(kept[i].title), subject |-> << >>]]

\* Mutant of load_cache_from_tsv: the is_loaded test is missing.
load_cache_from_tsv_Unlatched(c, env) ==
    IF env.tsv.state = "missing" THEN load_cache_from_api(c, env)
    ELSE IF env.tsv.state = "unreadable" THEN load_cache_from_api(c, env)
    ELSE IF TsvIndicators(env.tsv.rows) # << >>
    THEN load(c, TsvIndicators(env.tsv.rows), TRUE)
    ELSE load_cache_from_api(c, env)

\* load_cache_from_tsv
load_cache_from_tsv(c, env) ==
    IF is_loaded(c) THEN c
    ELSE IF env.tsv.state = "missing" THEN load_cache_from_api(c, env)
    ELSE IF env.tsv.state = "unreadable" THEN load_cache_from_api(c, env)
    ELSE IF TsvIndicators(env.tsv.rows) # << >>
    THEN load(c, TsvIndicators(env.tsv.rows), TRUE)
    ELSE load_cache_from_api(c, env)

\* ensure_cache_loaded
ensure_cache_loaded(c, env) ==
    IF ~is_loaded(c) THEN load_cache_from_tsv(c, env) ELSE c

\* ------------------------------------------------------------------------
\* resolver.extract_keywords and resolver.resolve_indicator
\* ------------------------------------------------------------------------

SplitThreshold == 6
MinKeywordLen == 2
MaxKeywords == 3
DefaultLimit == 10

common_prefixes ==
    << <<"S","E","X","O">>, <<"E","D","A","D">>, <<"I","S","L","A">>, <<"M","U","N">>,
       <<"R","E","G","I","O","N">>, <<"H","O","M","B","R","E">>,
       <<"M","U","J","E","R">>, <<"T","O","T","A","L">> >>

\* Mutant of ExpandPart: short parts are split too.
ExpandPart_AnyLength(part) ==
    LET Splits(prefix) == StartsWith(part, prefix) /\ Len(part) > Len(prefix)
    IN IF \E i \in 1..Len(common_prefixes) : Splits(common_prefixes[i])
       THEN LET i == CHOOSE k \in 1..Len(common_prefixes) :
                         /\ Splits(common_prefixes[k])
                         /\ \A j \in 1..(k - 1) : ~Splits(common_prefixes[j])
                prefix == common_prefixes[i]
            IN <<Lower(prefix), Lower(SubSeq(part, Len(prefix) + 1, Len(part)))>>
       ELSE <<Lower(part)>>

\* What one part of the code contributes to expanded.
ExpandPart(part) ==
    LET Splits(prefix) == StartsWith(part, prefix) /\ Len(part) > Len(prefix)
    IN IF Len(part) > SplitThreshold /\ \E i \in 1..Len(common_prefixes) : Splits(common_prefixes[i])
       THEN LET i == CHOOSE k \in 1..Len(common_prefixes) :
                         /\ Splits(common_prefixes[k])
                         /\ \A j \in 1..(k - 1) : ~Splits(common_prefixes[j])
                prefix == common_prefixes[i]
            IN <<Lower(prefix), Lower(SubSeq(part, Len(prefix) + 1, Len(part)))>>
       ELSE <<Lower(part)>>

extract_keywords(code) ==
    IF code = << >> THEN << >>
    ELSE LET parts == Split(Upper(code), "_")
             expanded == Concat([i \in 1..Len(parts) |-> ExpandPart(parts[i])])
         IN SelectSeq(expanded, LAMBDA k : Len(k) > MinKeywordLen /\ ~IsDigitStr(k))

Msg(kind, text, n) == [kind |-> kind, text |-> text, n |-> n, remaining |-> None]

\* A returned value or a raised exception, in one shape for every call.
Returned(success, id, candidates, msg, needs_selection) ==
    [raised |-> FALSE, exc |-> "", success |-> success, id |-> id,
     candidates |-> candidates, msg |-> msg, needs_selection |-> needs_selection]
Raised(e) ==
    [raised |-> TRUE, exc |-> e, success |-> FALSE, id |-> None,
     candidates |-> << >>, msg |-> Msg("", << >>, 0), needs_selection |-> FALSE]

\* Mutant of ValidResult: resolved_id is the code as it was passed.
ValidResult_RawCode(code, info) ==
    IF info = None THEN Raised("AttributeError")
    ELSE Returned(TRUE, Some(code), << >>, Msg("valid", info[1].title, 0), FALSE)

\* ResolverResult(success=True, resolved_id=code.upper(), message=...): the
\* message reads info.title, which raises AttributeError when info is None.
ValidResult(code, info) ==
    IF info = None THEN Raised("AttributeError")
    ELSE Returned(TRUE, Some(Upper(code)), << >>, Msg("valid", info[1].title, 0), FALSE)

\* The candidates of resolve_indicator for a code that is not valid: every
\* Ok(list) or Raise(exception) the search can end with.
ResolveCandidates(c, code, limit) ==
    LET keywords == extract_keywords(code)
        found == IF keywords # << >>
                 THEN search(c, Join(Take(keywords, MaxKeywords)), limit)
                 ELSE << >>
    IN IF found # << >> THEN {Ok(found)} ELSE find_similar(c, code, limit)

\* resolve_indicator on a cache that ensure_cache_loaded has returned: the
\* set of results it can end with.
ResolveLoaded(c, code, limit) ==
    IF is_valid(c, code)
    THEN {ValidResult(code, get_info(c, code))}
    ELSE {IF r.raised THEN Raised(r.exc)
          ELSE IF r.value = << >>
          THEN Returned(FALSE, None, << >>, Msg("not_found", code, 0), FALSE)
          ELSE Returned(FALSE, None, r.value, Msg("not_exists", code, 0), TRUE)
          : r \in ResolveCandidates(c, code, limit)}

\* ------------------------------------------------------------------------
\* validator.IndicatorValidator
\* ------------------------------------------------------------------------

ValidatorLimit == 5

\* validate_code: is_valid, message, suggestions (or the exception raised).
validate_code(c, code) ==
    IF code = << >>
    THEN {Returned(FALSE, None, << >>, Msg("empty", << >>, 0), FALSE)}
    ELSE LET code_upper == Upper(code)
         IN IF is_valid(c, code_upper)
            THEN {IF get_info(c, code_upper) = None THEN Raised("AttributeError")
                  ELSE Returned(TRUE, None, << >>,
                                Msg("valid", get_info(c, code_upper)[1].title, 0), FALSE)}
            ELSE {IF r.raised THEN Raised(r.exc)
                  ELSE IF r.value # << >>
                  THEN Returned(FALSE, None, r.value, Msg("not_exists_suggest", code, 0), FALSE)
                  ELSE Returned(FALSE, None, r.value, Msg("not_exists", code, 0), FALSE)
                  : r \in find_similar(c, code_upper, ValidatorLimit)}

\* Mutant of AutoResolves: the first of several suggestions is taken.
AutoResolves_First(suggestions) == Len(suggestions) >= 1

\* Whether resolve_code substitutes the single suggestion.
AutoResolves(suggestions) == Len(suggestions) = 1

\* resolve_code: (success, resolved_code, message)
resolve_code(c, code) ==
    {IF v.raised THEN v
     ELSE IF v.success THEN Returned(TRUE, Some(Upper(code)), << >>, v.msg, FALSE)
     ELSE IF AutoResolves(v.candidates)
     THEN Returned(TRUE, Some(v.candidates[1].code), << >>,
                   Msg("auto_resolved", v.candidates[1].title, 0), FALSE)
     ELSE Returned(FALSE, Some(code), << >>, v.msg, FALSE)
     : v \in validate_code(c, code)}

\* ------------------------------------------------------------------------
\* resolver.validate_selection and the selection session
\* ------------------------------------------------------------------------

MaxAttempts == 2
HintLimit == 5

\* Mutant of SelectByNumber: the number is taken as a zero-based index.
SelectByNumber_ZeroBased(selection, candidates) ==
    IF ~IntParses(selection) THEN Raised("ValueError")
    ELSE LET num == ToInt(selection)
         IN IF 0 <= num /\ num < Len(candidates)
            THEN Returned(TRUE, Some(candidates[num + 1].code), << >>,
                          Msg("selected", candidates[num + 1].code, 0), FALSE)
            ELSE Returned(FALSE, None, << >>,
                          Msg("out_of_range", << >>, Len(candidates)), FALSE)

\* Caso 1 of validate_selection: the stripped selection is a number.
SelectByNumber(selection, candidates) ==
    IF ~IntParses(selection) THEN Raised("ValueError")
    ELSE LET num == ToInt(selection)
         IN IF 1 <= num /\ num <= Len(candidates)
            THEN Returned(TRUE, Some(candidates[num].code), << >>,
                          Msg("selected", candidates[num].code, 0), FALSE)
            ELSE Returned(FALSE, None, << >>,
                          Msg("out_of_range", << >>, Len(candidates)), FALSE)

\* Caso 2 of validate_selection: the selection is an exact ID.
SelectByCode(selection, candidates) ==
    LET selection_upper == Upper(selection)
        Is(c) == c.code = selection_upper
    IN IF \E i \in 1..Len(candidates) : Is(candidates[i])
       THEN LET c == candidates[CHOOSE i \in 1..Len(candidates) :
                                    Is(candidates[i]) /\ \A j \in 1..(i - 1) : ~Is(candidates[j])]
            IN Returned(TRUE, Some(c.code), << >>, Msg("selected", c.code, 0), FALSE)
       ELSE Returned(FALSE, None, << >>,
                     Msg("no_match",
                         Concat([i \in 1..Len(Take(candidates, HintLimit)) |->
                                     candidates[i].code \o <<",">>]), 0),
                     FALSE)

\* validate_selection: (es_valido, id_seleccionado, mensaje)
validate_selection(selection, candidates) ==
    IF selection = << >> \/ candidates = << >>
    THEN Returned(FALSE, None, << >>, Msg("empty_selection", << >>, 0), FALSE)
    ELSE IF IsDigitStr(Strip(selection))
    THEN SelectByNumber(Strip(selection), candidates)
    ELSE SelectByCode(Strip(selection), candidates)

\* format_candidates_for_selection: the candidates, listed with the numbers
\* 1..N.
format_candidates_for_selection(candidates) ==
    Returned(FALSE, None, candidates, Msg("candidates", << >>, Len(candidates)), FALSE)

SelectionState(candidates, context) ==
    [candidates |-> candidates, attempts |-> 0, max_attempts |-> MaxAttempts,
     context |-> context]

\* Mutant of can_retry: one attempt too many.
can_retry_Inclusive(st) == st.attempts <= st.max_attempts

can_retry(st) == st.attempts < st.max_attempts

record_attempt(st) == [st EXCEPT !.attempts = @ + 1]

\* Mutant of process_selection: the retry limit is tested before the answer.
process_selection_RetryFirst(p, user_input) ==
    IF p = None
    THEN [pending |-> None,
          ret |-> Returned(FALSE, None, << >>, Msg("no_pending", << >>, 0), FALSE)]
    ELSE LET st == record_attempt(p[1])
             v == validate_selection(user_input, st.candidates)
         IN IF v.raised THEN [pending |-> Some(st), ret |-> v]
            ELSE IF ~can_retry(st)
            THEN [pending |-> None,
                  ret |-> Returned(FALSE, None, << >>, Msg("max_attempts", << >>, 0), FALSE)]
            ELSE IF v.success THEN [pending |-> None, ret |-> v]
            ELSE [pending |-> Some(st),
                  ret |-> Returned(FALSE, None, << >>,
                                   [v.msg EXCEPT !.remaining =
                                        Some(st.max_attempts - st.attempts)],
                                   FALSE)]

\* Mutant of process_selection: the test for a missing session is missing.
process_selection_NoneUnchecked(p, user_input) ==
    IF p = None
    THEN [pending |-> None, ret |-> Raised("AttributeError")]
    ELSE LET st == record_attempt(p[1])
             v == validate_selection(user_input, st.candidates)
         IN IF v.raised THEN [pending |-> Some(st), ret |-> v]
            ELSE IF v.success THEN [pending |-> None, ret |-> v]
            ELSE IF ~can_retry(st)
            THEN [pending |-> None,
                  ret |-> Returned(FALSE, None, << >>, Msg("max_attempts", << >>, 0), FALSE)]
            ELSE [pending |-> Some(st),
                  ret |-> Returned(FALSE, None, << >>,
                                   [v.msg EXCEPT !.remaining =
                                        Some(st.max_attempts - st.attempts)],
                                   FALSE)]

\* process_selection: the session it leaves and what it returns (or raises).
process_selection(p, user_input) ==
    IF p = None
    THEN [pending |-> None,
          ret |-> Returned(FALSE, None, << >>, Msg("no_pending", << >>, 0), FALSE)]
    ELSE LET st == record_attempt(p[1])
             v == validate_selection(user_input, st.candidates)
         IN IF v.raised THEN [pending |-> Some(st), ret |-> v]
            ELSE IF v.success THEN [pending |-> None, ret |-> v]
            ELSE IF ~can_retry(st)
            THEN [pending |-> None,
                  ret |-> Returned(FALSE, None, << >>, Msg("max_attempts", << >>, 0), FALSE)]
            ELSE [pending |-> Some(st),
                  ret |-> Returned(FALSE, None, << >>,
                                   [v.msg EXCEPT !.remaining =
                                        Some(st.max_attempts - st.attempts)],
                                   FALSE)]

has_pending_selection(p) == p # None

\* ------------------------------------------------------------------------
\* dimensions.detect_dimensions and dimensions.analyze_query
\* ------------------------------------------------------------------------

\* The entries of DIMENSION_KEYWORDS modelled, in the order of the dict, and
\* their types.
DIMENSION_KEYWORDS ==
    << [keyword |-> <<"i","s","l","a">>, type |-> "GEOGRAPHICAL"],
       [keyword |-> <<"i","s","l","a","s">>, type |-> "GEOGRAPHICAL"],
       [keyword |-> <<"c","o","m","a","r","c","a">>, type |-> "GEOGRAPHICAL"],
       [keyword |-> <<"s","e","x","o">>, type |-> "SEX"],
       [keyword |-> <<"e","d","a","d">>, type |-> "AGE"],
       [keyword |-> <<"g","r","u","p","o"," ","d","e"," ","e","d","a","d">>, type |-> "AGE"],
       [keyword |-> <<"t","r","i","m","e","s","t","r","e">>, type |-> "TIME"],
       [keyword |-> <<"m","e","s">>, type |-> "TIME"] >>

\* The members of BREAKDOWN_PREPOSITIONS modelled.
BREAKDOWN_PREPOSITIONS == { <<"p","o","r">>, <<"s","e","g","u'","n">>, <<"d","e","s","g","l","o","s","a","d","o">> }

\* \w and \s on one character.
IsWordCh(c) == InSeq(c, UpperLetters) \/ InSeq(c, LowerLetters) \/ c \in Digits \/ c = "_"
IsSpaceCh(c) == c \in Whitespace

\* \b after the first i characters of s.
WordAt(s, i) == i >= 1 /\ i <= Len(s) /\ IsWordCh(s[i])
Boundary(s, i) == WordAt(s, i) # WordAt(s, i + 1)

\* How many characters of the class (\w if word, else \s) follow the first i.
RECURSIVE RunLen(_, _, _)
RunLen(s, i, word) ==
    IF i < Len(s) /\ (IF word THEN IsWordCh(s[i + 1]) ELSE IsSpaceCh(s[i + 1]))
    THEN 1 + RunLen(s, i + 1, word)
    ELSE 0

Max(S) == CHOOSE x \in S : \A y \in S : y <= x
Min(S) == CHOOSE x \in S : \A y \in S : x <= y

\* The elements of the regular expressions of analyze_query.
B == [t |-> "b", s |-> << >>]
Lit(l) == [t |-> "lit", s |-> l]
SpacePlus == [t |-> "s+", s |-> << >>]
WordStar == [t |-> "w*", s |-> << >>]
WordPlus == [t |-> "w+", s |-> << >>]

\* Where the match of pat[k..] that starts after the first i characters of s
\* ends, or -1: the quantifiers are greedy and give back characters one at a
\* time.
RECURSIVE MatchEnd(_, _, _, _)
MatchEnd(pat, k, s, i) ==
    IF k > Len(pat) THEN i
    ELSE LET e == pat[k]
         IN CASE e.t = "b" ->
                    IF Boundary(s, i) THEN MatchEnd(pat, k + 1, s, i) ELSE -1
              [] e.t = "lit" ->
                    IF i + Len(e.s) <= Len(s) /\ SubSeq(s, i + 1, i + Len(e.s)) = e.s
                    THEN MatchEnd(pat, k + 1, s, i + Len(e.s))
                    ELSE -1
              [] OTHER ->
                    LET m == RunLen(s, i, e.t # "s+")
                        lo == IF e.t = "w*" THEN 0 ELSE 1
                        ok == {j \in lo..m : MatchEnd(pat, k + 1, s, i + j) # -1}
                    IN IF ok = {} THEN -1 ELSE MatchEnd(pat, k + 1, s, i + Max(ok))

\* re.search(pat, s): the span of the leftmost match, or None.
Search(pat, s) ==
    LET starts == {i \in 0..Len(s) : MatchEnd(pat, 1, s, i) # -1}
    IN IF starts = {} THEN None
       ELSE Some([start |-> Min(starts), end |-> MatchEnd(pat, 1, s, Min(starts))])

\* re.sub(pat, '', s), from the first i characters of s on.
RECURSIVE SubFrom(_, _, _)
SubFrom(pat, s, i) ==
    LET starts == {j \in i..Len(s) : MatchEnd(pat, 1, s, j) # -1}
    IN IF starts = {} THEN SubSeq(s, i + 1, Len(s))
       ELSE LET j == Min(starts)
                e == MatchEnd(pat, 1, s, j)
            IN IF e > j THEN SubSeq(s, i + 1, j) \o SubFrom(pat, s, e)
               ELSE IF j < Len(s) THEN SubSeq(s, i + 1, j + 1) \o SubFrom(pat, s, j + 1)
               ELSE SubSeq(s, i + 1, Len(s))
Sub(pat, s) == SubFrom(pat, s, 0)

\* rf'\b{prep}\b\s+(\w+)'
BreakdownPattern(prep) == <<B, Lit(prep), B, SpacePlus, WordPlus>>
\* rf'\b{prep}\s+{dim}\b' and rf'\b{prep}\s+\w*{dim}\w*\b'
PhrasePatterns(prep, dim) ==
    << <<B, Lit(prep), SpacePlus, Lit(dim), B>>,
       <<B, Lit(prep), SpacePlus, WordStar, Lit(dim), WordStar, B>> >>
\* rf'\b{dim}\b'
LoosePattern(dim) == <<B, Lit(dim), B>>

\* Mutant of detect_dimensions: the search stops at the first keyword found.
detect_dimensions_First(text) ==
    LET text_lower == Lower(text)
        found == Take(SelectSeq(DIMENSION_KEYWORDS,
                                LAMBDA k : Contains(text_lower, k.keyword)), 1)
    IN [dimensions |-> [i \in 1..Len(found) |-> found[i].keyword],
        types |-> {found[i].type : i \in 1..Len(found)}]

\* detect_dimensions: (dimensions, types)
detect_dimensions(text) ==
    LET text_lower == Lower(text)
        found == SelectSeq(DIMENSION_KEYWORDS, LAMBDA k : Contains(text_lower, k.keyword))
    IN [dimensions |-> [i \in 1..Len(found) |-> found[i].keyword],
        types |-> {found[i].type : i \in 1..Len(found)}]

\* ' '.join(s.split()).strip()
Collapse(s) == Strip(Join(SelectSeq(Split(s, " "), LAMBDA w : w # << >>)))

RECURSIVE ApplySubs(_, _)
ApplySubs(pats, s) == IF pats = << >> THEN s ELSE ApplySubs(Tail(pats), Sub(Head(pats), s))

QueryAnalysis(original_query, indicator_query, dimensions, dimension_types, has_breakdown, breakdown_phrase) ==
    [raised |-> FALSE,
     original_query |-> original_query,
     indicator_query |-> indicator_query,
     dimensions |-> dimensions,
     dimension_types |-> dimension_types,
     has_breakdown |-> has_breakdown,
     breakdown_phrase |-> breakdown_phrase]

\* analyze_query, with the prepositions iterated in the order preps
AnalyzeWith(query, preps) ==
    LET query_lower == Lower(query)
        hits == SelectSeq(preps, LAMBDA prep : Search(BreakdownPattern(prep), query_lower) # None)
        has_breakdown == hits # << >>
        breakdown_phrase ==
            IF has_breakdown
            THEN LET m == Search(BreakdownPattern(hits[1]), query_lower)[1]
                 IN SubSeq(query_lower, m.start + 1, m.end)
            ELSE << >>
        detected == detect_dimensions(query_lower)
        dims == detected.dimensions
        phrases ==
            Concat([p \in 1..Len(preps) |->
                       Concat([d \in 1..Len(dims) |-> PhrasePatterns(preps[p], dims[d])])])
        loose == [d \in 1..Len(dims) |-> LoosePattern(dims[d])]
        indicator_query == Collapse(ApplySubs(phrases \o loose, query_lower))
    IN QueryAnalysis(query, indicator_query, dims, detected.types,
                     has_breakdown, breakdown_phrase)

\* analyze_query: one result for each order in which the set
\* BREAKDOWN_PREPOSITIONS may be iterated
analyze_query(query) == {AnalyzeWith(query, preps) : preps \in Perms(BREAKDOWN_PREPOSITIONS)}

\* ------------------------------------------------------------------------
\* tools.get_indicator_info and tools.get_indicator_data
\* ------------------------------------------------------------------------

ToolCandidateCap == 10
MaxRowsToShow == 500

VALID_GEO_VALUES ==
    { <<"I","S","L","A","N","D","S">>,
      <<"M","U","N","I","C","I","P","A","L","I","T","I","E","S">>,
      <<"C","O","U","N","T","I","E","S">>,
      <<"P","R","O","V","I","N","C","E","S">>,
      <<"R","E","G","I","O","N","S">>,
      <<"E","S","7","0">>,
      <<"T","O","T","A","L">>,
      <<"A","L","L">> }

\* The values of GEO_GRANULARITIES.
GEO_GRANULARITIES ==
    { <<"I","S","L","A","N","D","S">>,
      <<"M","U","N","I","C","I","P","A","L","I","T","I","E","S">>,
      <<"C","O","U","N","T","I","E","S">>,
      <<"P","R","O","V","I","N","C","E","S">>,
      <<"R","E","G","I","O","N","S">> }

\* The keys of ISLAS_CANARIAS.
ISLAS_CANARIAS ==
    { <<"t","e","n","e","r","i","f","e">>,
      <<"g","r","a","n"," ","c","a","n","a","r","i","a">>,
      <<"g","r","a","n","c","a","n","a","r","i","a">>,
      <<"l","a","n","z","a","r","o","t","e">>,
      <<"f","u","e","r","t","e","v","e","n","t","u","r","a">>,
      <<"l","a"," ","p","a","l","m","a">>,
      <<"l","a","p","a","l","m","a">>,
      <<"l","a"," ","g","o","m","e","r","a">>,
      <<"l","a","g","o","m","e","r","a">>,
      <<"e","l"," ","h","i","e","r","r","o">>,
      <<"e","l","h","i","e","r","r","o">>,
      <<"h","i","e","r","r","o">>,
      <<"l","a"," ","g","r","a","c","i","o","s","a">>,
      <<"c","a","n","a","r","i","a","s">> }

\* resolve_island(text) is not None
IsIsland(text) ==
    LET text_lower == Strip(Lower(text))
    IN \/ text_lower \in ISLAS_CANARIAS
       \/ \E key \in ISLAS_CANARIAS : Contains(key, text_lower) \/ Contains(text_lower, key)

\* is_valid_geo of get_indicator_data
IsValidGeo(geo) ==
    \/ Upper(geo) \in VALID_GEO_VALUES
    \/ Upper(geo) \in {Upper(v) : v \in GEO_GRANULARITIES}
    \/ IsIsland(geo)
    \/ IsDigitStr(geo)

\* What a tool call ends with: the calls it made, in order, the result of
\* resolve_indicator, and the dict it returned (or the exception raised).
ToolOutcome(raised, exc, steps, resolution, kind, candidates, selection_required, rows_shown, truncated) ==
    [raised |-> raised, exc |-> exc, steps |-> steps, resolution |-> resolution,
     kind |-> kind, candidates |-> candidates, selection_required |-> selection_required,
     count |-> rows_shown, truncated |-> truncated]

\* Mutant of NumberedCandidates: the candidates are numbered from 0.
NumberedCandidates_FromZero(candidates) ==
    LET shown == Take(candidates, ToolCandidateCap)
    IN [i \in 1..Len(shown) |-> [num |-> i - 1, code |-> shown[i].code, title |-> shown[i].title]]

\* [{"num": i+1, "code": c.code, "title": c.title}
\*  for i, c in enumerate(result.candidates[:10])]
NumberedCandidates(candidates) ==
    LET shown == Take(candidates, ToolCandidateCap)
    IN [i \in 1..Len(shown) |-> [num |-> i, code |-> shown[i].code, title |-> shown[i].title]]

\* The part the two tools share: resolve_indicator(code), and the dict
\* returned when it did not succeed. << >> when the tool goes on.
ToolResolved(r) ==
    IF r.raised
    THEN Some(ToolOutcome(TRUE, r.exc, <<"resolve_indicator">>, r, "", << >>, FALSE, 0, FALSE))
    ELSE IF ~r.success
    THEN Some(ToolOutcome(FALSE, "", <<"resolve_indicator">>, r, "code_not_found",
                          NumberedCandidates(r.candidates), r.needs_selection, 0, FALSE))
    ELSE None

\* get_indicator_info(code) on a cache that ensure_cache_loaded has
\* returned. The client of src.data is ISTACClient, which has no method
\* get_indicator: the call client.get_indicator(code) raises AttributeError.
get_indicator_info(c, code) ==
    {IF ToolResolved(r) # None THEN ToolResolved(r)[1]
     ELSE ToolOutcome(TRUE, "AttributeError",
                      <<"resolve_indicator", "get_client", "client.get_indicator">>,
                      r, "", << >>, FALSE, 0, FALSE)
     : r \in ResolveLoaded(c, code, DefaultLimit)}

\* get_indicator_data(code, geo, time, measure) on a cache that
\* ensure_cache_loaded has returned; rows is the number of rows of the
\* DataFrame the client answers with, << >> when it answers (None, None).
get_indicator_data(c, code, geo, rows) ==
    {IF ToolResolved(r) # None THEN ToolResolved(r)[1]
     ELSE IF geo # << >> /\ ~IsValidGeo(geo)
     THEN ToolOutcome(FALSE, "", <<"resolve_indicator">>, r, "invalid_filter",
                      << >>, FALSE, 0, FALSE)
     ELSE LET steps == <<"resolve_indicator", "get_client", "client.get_indicator_data">>
          IN IF rows = None
             THEN ToolOutcome(FALSE, "", steps, r, "no_data", << >>, FALSE, 0, FALSE)
             ELSE ToolOutcome(FALSE, "", steps, r, "data", << >>, FALSE,
                              IF rows[1] > MaxRowsToShow THEN MaxRowsToShow ELSE rows[1],
                              rows[1] > MaxRowsToShow)
     : r \in ResolveLoaded(c, code, DefaultLimit)}

\* ------------------------------------------------------------------------
\* The values the calls are made with
\* ------------------------------------------------------------------------

MaxLimit == 2
MaxTrace == 4
\* attempts grows with every process_selection that raises: the calls
\* modelled stop there.
AttemptsBound == 3

POBLACION == <<"P","O","B","L","A","C","I","O","N">>
POBLACION_ISLA == POBLACION \o <<"_","I","S","L","A">>
PARO == <<"P","A","R","O">>
ISLAS == <<"I","S","L","A","S">>
FAKE == <<"F","A","K","E">>
NUEVE == <<"9">>

\* The codes a caller asks about: known, known in another spelling
\* (lower case, accented, padded), invented, misspelt, empty.
CodeInputs ==
    { POBLACION,
      Lower(POBLACION),
      <<"P","O","B","L","A","C","I","O'","N">>,
      <<" ">> \o POBLACION \o <<" ">>,
      POBLACION_ISLA,
      <<"P","O","B","L","A","C","I","N">>,
      <<"P","A">>,
      <<"P">>,
      <<"Z","Z","Z">>,
      NUEVE,
      << >> }

\* The codes find_similar is asked about: a prefix of two keys, bare and
\* padded, a prefix of one, an accented and a misspelt key, and none.
SimilarInputs ==
    { <<"P">>,
      <<" ", "P", " ">>,
      <<"P","A">>,
      <<"P","O","B","L","A","C","I","O'","N">>,
      <<"P","O","B","L","A","C","I","N">>,
      <<"Z","Z","Z">> }

\* The codes asked about while a selection may be pending.
ToolCodes ==
    { Lower(POBLACION),
      <<"P","O","B","L","A","C","I","O'","N">>,
      POBLACION_ISLA,
      <<"P","A">>,
      << >> }

Limits == (0..MaxLimit) \cup {DefaultLimit}

\* The geo filters the tools are called with: none, a granularity, a
\* province code, an unknown word.
GeoInputs ==
    { << >>,
      <<"i","s","l","a","n","d","s">>,
      <<"3","8">>,
      <<"X","X">> }

\* The answers of client.get_indicator_data: no DataFrame, or its rows.
DataAnswers == {None, Some(MaxRowsToShow), Some(MaxRowsToShow + 1)}

\* The segments of the codes extract_keywords is given: short, numeric,
\* with a listed prefix and 6 characters or fewer, with one and more than 6
\* (the rest a word, one letter, a number), without one, in lower case.
KeywordSegments ==
    { << >>,
      <<"A","B">>,
      <<"1","2","3">>,
      <<"^2","^2","^2">>,
      <<"I","S","L","A","S">>,
      <<"S","E","X","O","A","B">>,
      <<"S","E","X","O","E","D","A","D">>,
      <<"s","e","x","o","e","d","a","d">>,
      <<"R","E","G","I","O","N","X">>,
      <<"T","O","T","A","L","2","0","2","4">>,
      <<"M","U","N","I","C","I","P","I","O">>,
      <<"P","O","B","L","A","C","I","O'","N">>,
      <<" ","I","S","L","A","S","1","2">> }

KeywordCodes ==
    KeywordSegments \cup {a \o <<"_">> \o b : a, b \in KeywordSegments}

\* The TSV file as load_cache_from_tsv finds it.
TsvRows ==
    << [code |-> <<" ">> \o POBLACION, title |-> <<"P","o","b","l","a","c","i","o'","n"," ">>],
       [code |-> PARO, title |-> <<"P","a","r","o">>],
       [code |-> <<"c","o","d","e">>, title |-> <<"t">>],
       [code |-> <<" ">>, title |-> <<"x">>] >>
Tsvs ==
    { [state |-> "missing", rows |-> << >>],
      [state |-> "unreadable", rows |-> << >>],
      [state |-> "ok", rows |-> SubSeq(TsvRows, 3, 4)],
      [state |-> "ok", rows |-> TsvRows] }

\* What client.search_indicators("", limit=500) answers.
ApiItems ==
    << [code |-> <<"p","o","b","l","a","c","i","o'","n">>,
        title |-> <<"P","o","b","l","a","c","i","o'","n">>,
        subject |-> <<"D","e","m","o">>],
       [code |-> NUEVE, title |-> <<"N","u","e","v","e">>, subject |-> << >>] >>
Apis ==
    { [ok |-> FALSE, items |-> << >>],
      [ok |-> TRUE, items |-> << >>],
      [ok |-> TRUE, items |-> ApiItems] }

Envs == {Env(t, a) : t \in Tsvs, a \in Apis}
NotRead == Env([state |-> "unread", rows |-> << >>], [ok |-> FALSE, items |-> << >>])

\* The lists load is called with directly.
LoadInputs ==
    { << [code |-> FAKE, title |-> <<"F","a","k","e">>] >>,
      << [code |-> <<"P","o","b","l","a","c","i","o'","n"," ">>,
          title |-> <<"O","t","r","a">>, subject |-> <<"S">>],
         [title |-> <<"S","i","n">>],
         [code |-> ISLAS,
          title |-> <<"P","o","b","l","a","c","i","o","n"," ","i","s","l","a","s">>,
          subject |-> << >>] >> }

\* What the user answers while a selection is pending.
SelectionInputs ==
    { <<"1">>, <<" ","2"," ">>, <<"0">>, <<"9">>, <<"^2">>,
      Lower(POBLACION), <<"Z","Z","Z">>, << >> }

Contexts == { << >>, <<"d","a","t","a">> }

\* Candidates that do not come from the cache.
ForeignCandidates ==
    { << >>, << IndicatorInfo(<<"Z","Z","Z">>, <<"z">>, << >>) >> }

\* The indicator words of the queries analysed: none contains a keyword.
IndicatorWords ==
    { <<"p","o","b","l","a","c","i","o'","n">>,
      <<"t","a","s","a"," ","d","e"," ","p","a","r","o">>,
      <<"G","a","s","t","o"," "," ","p","o","r"," ","t","u","r","i","s","t","a">>,
      <<"p","i","b">> }

\* '<indicator words> <preposition> <dimension keyword>'
BreakdownQuery(words, prep, dim) == words \o <<" ">> \o prep \o <<" ">> \o dim

\* The queries analysed: every breakdown query of the words, prepositions and
\* keywords modelled, and queries of other forms.
BreakdownQueries ==
    {BreakdownQuery(w, prep, DIMENSION_KEYWORDS[k].keyword) :
        w \in IndicatorWords, prep \in BREAKDOWN_PREPOSITIONS, k \in 1..Len(DIMENSION_KEYWORDS)}
OtherQueries ==
    { << >>,
      <<"p","o","b","l","a","c","i","o'","n">>,
      <<"i","s","l","a">>,
      <<"p","a","r","o"," ","p","o","r">>,
      <<"p","o","b","l","a","c","i","o'","n"," ","d","e"," ","l","a","s"," ","i","s","l","a","s">>,
      <<"p","o","r"," ","i","s","l","a"," ","y"," ","s","e","x","o">> }
Queries == BreakdownQueries \cup OtherQueries

\* analyze_query on each of the queries.
AnalysisTable == [q \in Queries |-> analyze_query(q)]

\* ------------------------------------------------------------------------
\* The state machine
\* ------------------------------------------------------------------------

\* Two threads, each making one call on the singleton cache.
Threads == {1, 2}

\* A thread that is not running a call.
Idle == [pc |-> "idle", op |-> "", inds |-> << >>, flag |-> FALSE, i |-> 0, env |-> NotRead]

\* The threads before any concurrent call: start is the cache as the calls
\* found it, loads the number of executions of IndicatorCache.load.
NoThreads == [th |-> [t \in Threads |-> Idle], start |-> None, loads |-> 0]

NoRet == Returned(FALSE, None, << >>, Msg("", << >>, 0), FALSE)

Call(op, code, limit, flag, env, ret) ==
    [op |-> op, code |-> code, limit |-> limit, flag |-> flag, env |-> env, ret |-> ret]

SetCache(c) ==
    /\ indicators' = c.indicators
    /\ codes' = c.codes
    /\ loaded' = c.loaded
    /\ from_tsv' = c.from_tsv

\* What a loader reads: nothing once the cache is loaded.
EnvsRead == IF loaded THEN {NotRead} ELSE Envs

\* One more event of the selection session: the calls are recorded from
\* start_selection up to the first process_selection that finds no session,
\* and no more than MaxTrace of them.
Record(event) ==
    IF trace # << >> /\ Len(trace) < MaxTrace /\ trace[Len(trace)] # "none"
    THEN Append(trace, event)
    ELSE trace

Init ==
    /\ indicators = << >>
    /\ codes = {}
    /\ loaded = FALSE
    /\ from_tsv = FALSE
    /\ pending = None
    /\ call = Call("init", << >>, 0, FALSE, NotRead, NoRet)
    /\ trace = << >>
    /\ lock = 0
    /\ threads = NoThreads

\* cache.load(inds, from_tsv=flag) on the singleton
Load ==
    \E inds \in LoadInputs, flag \in BOOLEAN :
        /\ SetCache(load(Cache, inds, flag))
        /\ call' = Call("load", << >>, 0, flag, NotRead, NoRet)
        /\ UNCHANGED <<pending, trace, lock, threads>>

\* ensure_cache_loaded(), as main calls it at startup
EnsureCacheLoaded ==
    \E env \in EnvsRead :
        /\ SetCache(ensure_cache_loaded(Cache, env))
        /\ call' = Call("ensure_cache_loaded", << >>, 0, FALSE, env, NoRet)
        /\ UNCHANGED <<pending, trace, lock, threads>>

\* resolver.resolve_indicator(code, limit)
ResolveWith(inputs, limits) ==
    \E code \in inputs, limit \in limits, env \in EnvsRead :
        LET c == ensure_cache_loaded(Cache, env)
        IN \E ret \in ResolveLoaded(c, code, limit) :
               /\ SetCache(c)
               /\ call' = Call("resolve_indicator", code, limit, FALSE, env, ret)
               /\ UNCHANGED <<pending, trace, lock, threads>>

ResolveIndicator == ResolveWith(CodeInputs, Limits)

\* resolve_indicator(code), as the tools get_indicator_info and
\* get_indicator_data call it with the code the language model chose
ToolResolve == ResolveWith(ToolCodes, {DefaultLimit})

\* validator.resolve_indicator(code): IndicatorValidator().resolve_code(code)
ValidatorResolveWith(inputs) ==
    \E code \in inputs, env \in EnvsRead :
        LET c == ensure_cache_loaded(Cache, env)
        IN \E ret \in resolve_code(c, code) :
               /\ SetCache(c)
               /\ call' = Call("resolve_code", code, 0, FALSE, env, ret)
               /\ UNCHANGED <<pending, trace, lock, threads>>

ValidatorResolve == ValidatorResolveWith(CodeInputs)

\* validator.validate_indicator(code): IndicatorValidator().validate_code(code)
ValidateIndicator ==
    \E code \in CodeInputs, env \in EnvsRead :
        LET c == ensure_cache_loaded(Cache, env)
        IN \E ret \in validate_code(c, code) :
               /\ SetCache(c)
               /\ call' = Call("validate_indicator", code, 0, FALSE, env, ret)
               /\ UNCHANGED <<pending, trace, lock, threads>>

\* get_cache().find_similar(code, limit): the cache is used as it is
FindSimilar ==
    \E code \in SimilarInputs, limit \in Limits :
        \E ret \in find_similar(Cache, code, limit) :
            /\ call' = Call("find_similar", code, limit, FALSE, NotRead, ret)
            /\ UNCHANGED <<indicators, codes, loaded, from_tsv, pending, trace, lock, threads>>

ToolValidatorResolve == ValidatorResolveWith(ToolCodes)

\* Mutant of StartSelection: a session that is pending is kept.
StartSelection_KeepsPending ==
    \E candidates \in {call.ret.candidates} \cup ForeignCandidates, context \in Contexts :
        /\ pending' = IF pending # None THEN pending
                      ELSE Some(SelectionState(candidates, context))
        /\ call' = Call("start_selection", context, 0, FALSE, NotRead,
                         format_candidates_for_selection(candidates))
        /\ trace' = <<"start">>
        /\ UNCHANGED <<indicators, codes, loaded, from_tsv, lock, threads>>

\* start_selection(candidates, context): with the candidates the last
\* resolution returned, or with a list of the caller's own
StartSelection ==
    \E candidates \in {call.ret.candidates} \cup ForeignCandidates, context \in Contexts :
        /\ pending' = Some(SelectionState(candidates, context))
        /\ call' = Call("start_selection", context, 0, FALSE, NotRead,
                         format_candidates_for_selection(candidates))
        /\ trace' = <<"start">>
        /\ UNCHANGED <<indicators, codes, loaded, from_tsv, lock, threads>>

\* process_selection(user_input)
ProcessSelection ==
    \E user_input \in SelectionInputs :
        /\ pending # None => pending[1].attempts < AttemptsBound
        /\ LET out == process_selection(pending, user_input)
               event == IF pending = None THEN "none"
                        ELSE LET v == validate_selection(user_input, pending[1].candidates)
                             IN IF v.raised THEN "raised"
                                ELSE IF v.success THEN "valid" ELSE "invalid"
           IN /\ pending' = out.pending
              /\ call' = Call("process_selection", user_input, 0, FALSE, NotRead, out.ret)
              /\ trace' = Record(event)
              /\ UNCHANGED <<indicators, codes, loaded, from_tsv, lock, threads>>

\* Mutant of CancelSelection: a session that may still retry is kept.
CancelSelection_KeepsRetriable ==
    /\ pending' = IF pending # None /\ can_retry(pending[1]) THEN pending ELSE None
    /\ call' = Call("cancel_selection", << >>, 0, FALSE, NotRead, NoRet)
    /\ trace' = Record("cancel")
    /\ UNCHANGED <<indicators, codes, loaded, from_tsv, lock, threads>>

\* cancel_selection()
CancelSelection ==
    /\ pending' = None
    /\ call' = Call("cancel_selection", << >>, 0, FALSE, NotRead, NoRet)
    /\ trace' = Record("cancel")
    /\ UNCHANGED <<indicators, codes, loaded, from_tsv, lock, threads>>

\* dimensions.analyze_query(query)
AnalyzeQuery ==
    \E query \in Queries :
        \E ret \in AnalysisTable[query] :
            /\ call' = Call("analyze_query", query, 0, FALSE, NotRead, ret)
            /\ UNCHANGED <<indicators, codes, loaded, from_tsv, pending, trace, lock, threads>>

\* tools.get_indicator_info(code)
GetIndicatorInfo ==
    \E code \in ToolCodes, env \in EnvsRead :
        LET c == ensure_cache_loaded(Cache, env)
        IN \E ret \in get_indicator_info(c, code) :
               /\ SetCache(c)
               /\ call' = Call("get_indicator_info", code, DefaultLimit, FALSE, env, ret)
               /\ UNCHANGED <<pending, trace, lock, threads>>

\* tools.get_indicator_data(code, geo, time, measure)
GetIndicatorData ==
    \E code \in ToolCodes, geo \in GeoInputs, rows \in DataAnswers, env \in EnvsRead :
        LET c == ensure_cache_loaded(Cache, env)
        IN \E ret \in get_indicator_data(c, code, geo, rows) :
               /\ SetCache(c)
               /\ call' = Call("get_indicator_data", code \o <<",">> \o geo, DefaultLimit, FALSE, env, ret)
               /\ UNCHANGED <<pending, trace, lock, threads>>

\* resolver.extract_keywords(code)
ExtractKeywords ==
    \E code \in KeywordCodes :
        /\ call' = Call("extract_keywords", code, 0, FALSE, NotRead, Ok(extract_keywords(code)))
        /\ UNCHANGED <<indicators, codes, loaded, from_tsv, pending, trace, lock, threads>>

\* A loader called with the sources as they are at that time, whether or not
\* it goes on to read them.
CallEnsureCacheLoaded ==
    \E env \in Envs :
        /\ SetCache(ensure_cache_loaded(Cache, env))
        /\ call' = Call("ensure_cache_loaded", << >>, 0, FALSE, env, NoRet)
        /\ UNCHANGED <<pending, trace, lock, threads>>

\* load_cache_from_tsv()
CallLoadCacheFromTsv ==
    \E env \in Envs :
        /\ SetCache(load_cache_from_tsv(Cache, env))
        /\ call' = Call("load_cache_from_tsv", << >>, 0, FALSE, env, NoRet)
        /\ UNCHANGED <<pending, trace, lock, threads>>

\* load_cache_from_api()
CallLoadCacheFromApi ==
    \E env \in Envs :
        /\ SetCache(load_cache_from_api(Cache, env))
        /\ call' = Call("load_cache_from_api", << >>, 0, FALSE, env, NoRet)
        /\ UNCHANGED <<pending, trace, lock, threads>>

\* Thread t goes on to pc.
Goto(t, pc) == [threads EXCEPT !.th[t].pc = pc]

\* Thread t enters cache.load(inds, from_tsv=flag): it waits for the lock.
EnterLoad(t, inds, flag) ==
    [threads EXCEPT !.th[t] = [@ EXCEPT !.pc = "acquire", !.inds = inds, !.flag = flag, !.i = 1]]

\* Two threads call cache.load at the same time.
BeginLoads ==
    /\ threads = NoThreads
    /\ \E a, b \in LoadInputs, fa, fb \in BOOLEAN :
           threads' = [th |-> [t \in Threads |->
                                  [pc |-> "acquire", op |-> "load",
                                   inds |-> IF t = 1 THEN a ELSE b,
                                   flag |-> IF t = 1 THEN fa ELSE fb,
                                   i |-> 1, env |-> NotRead]],
                       start |-> Some(Cache), loads |-> 0]
    /\ UNCHANGED <<indicators, codes, loaded, from_tsv, pending, call, trace, lock>>

\* Two threads call ensure_cache_loaded at the same time (as two
\* resolve_indicator calls do), with the sources as they are then.
BeginEnsures ==
    /\ threads = NoThreads
    /\ \E env \in Envs :
           threads' = [th |-> [t \in Threads |->
                                  [pc |-> "ensure", op |-> "ensure_cache_loaded",
                                   inds |-> << >>, flag |-> FALSE, i |-> 0, env |-> env]],
                       start |-> Some(Cache), loads |-> 0]
    /\ UNCHANGED <<indicators, codes, loaded, from_tsv, pending, call, trace, lock>>

\* A load made before the concurrent calls begin.
LoadBefore == threads = NoThreads /\ Load

\* ensure_cache_loaded: if not cache.is_loaded()
EnsureStep(t) ==
    /\ threads.th[t].pc = "ensure"
    /\ threads' = Goto(t, IF ~loaded THEN "tsv" ELSE "done")
    /\ UNCHANGED <<indicators, codes, loaded, from_tsv, pending, call, trace, lock>>

\* load_cache_from_tsv: the is_loaded test, then the file is read
TsvStep(t) ==
    /\ threads.th[t].pc = "tsv"
    /\ LET env == threads.th[t].env
       IN threads' = IF loaded THEN Goto(t, "done")
                     ELSE IF env.tsv.state = "ok" /\ TsvIndicators(env.tsv.rows) # << >>
                     THEN EnterLoad(t, TsvIndicators(env.tsv.rows), TRUE)
                     ELSE Goto(t, "api")
    /\ UNCHANGED <<indicators, codes, loaded, from_tsv, pending, call, trace, lock>>

\* load_cache_from_api: the is_loaded test, then the API is asked
ApiStep(t) ==
    /\ threads.th[t].pc = "api"
    /\ LET env == threads.th[t].env
       IN threads' = IF loaded \/ ~env.api.ok THEN Goto(t, "done")
                     ELSE EnterLoad(t, Take(env.api.items, ApiLimit), FALSE)
    /\ UNCHANGED <<indicators, codes, loaded, from_tsv, pending, call, trace, lock>>

\* Mutant of AcquireLock: load does not wait for the lock.
AcquireLock_NoWait(t) ==
    /\ threads.th[t].pc = "acquire"
    /\ lock' = t
    /\ threads' = [Goto(t, "guard") EXCEPT !.loads = @ + 1]
    /\ UNCHANGED <<indicators, codes, loaded, from_tsv, pending, call, trace>>

\* load: with self._lock
AcquireLock(t) ==
    /\ threads.th[t].pc = "acquire"
    /\ lock = 0
    /\ lock' = t
    /\ threads' = [Goto(t, "guard") EXCEPT !.loads = @ + 1]
    /\ UNCHANGED <<indicators, codes, loaded, from_tsv, pending, call, trace>>

\* load: if self._from_tsv and not from_tsv: return
GuardStep(t) ==
    /\ threads.th[t].pc = "guard"
    /\ threads' = Goto(t, IF LoadIgnored(Cache, threads.th[t].flag) THEN "release" ELSE "loop")
    /\ UNCHANGED <<indicators, codes, loaded, from_tsv, pending, call, trace, lock>>

\* load: one round of the for loop, or the flags after the last one
LoopStep(t) ==
    /\ threads.th[t].pc = "loop"
    /\ LET me == threads.th[t]
       IN IF me.i <= Len(me.inds)
          THEN /\ SetCache(LoadOne(Cache, me.inds[me.i]))
               /\ threads' = [threads EXCEPT !.th[t].i = @ + 1]
          ELSE /\ SetCache([Cache EXCEPT !.loaded = TRUE, !.from_tsv = @ \/ me.flag])
               /\ threads' = Goto(t, "release")
    /\ UNCHANGED <<pending, call, trace, lock>>

\* load: the lock is released when the with block is left
ReleaseLock(t) ==
    /\ threads.th[t].pc = "release"
    /\ lock' = 0
    /\ threads' = Goto(t, "done")
    /\ UNCHANGED <<indicators, codes, loaded, from_tsv, pending, call, trace>>

\* The cache and the resolution of codes.
Next ==
    \/ Load
    \/ EnsureCacheLoaded
    \/ ResolveIndicator
    \/ ValidatorResolve
    \/ ValidateIndicator
    \/ FindSimilar

Spec == Init /\ [][Next]_vars

\* The selection session, on the cache as the loaders fill it.
SessionNext ==
    \/ EnsureCacheLoaded
    \/ ToolResolve
    \/ ToolValidatorResolve
    \/ StartSelection
    \/ ProcessSelection
    \/ CancelSelection

SessionSpec == Init /\ [][SessionNext]_vars

\* The analysis of queries.
\* The tools the language model calls, on the cache as the loaders fill it.
ToolNext ==
    \/ EnsureCacheLoaded
    \/ GetIndicatorInfo
    \/ GetIndicatorData

ToolSpec == Init /\ [][ToolNext]_vars

KeywordNext == ExtractKeywords

KeywordSpec == Init /\ [][KeywordNext]_vars

\* The loaders, called in any order, and load called directly.
LoaderNext ==
    \/ Load
    \/ CallEnsureCacheLoaded
    \/ CallLoadCacheFromTsv
    \/ CallLoadCacheFromApi

LoaderSpec == Init /\ [][LoaderNext]_vars

\* Two concurrent calls on the singleton cache, their steps interleaved.
ThreadNext ==
    \/ LoadBefore
    \/ BeginLoads
    \/ BeginEnsures
    \/ \E t \in Threads : EnsureStep(t)
    \/ \E t \in Threads : TsvStep(t)
    \/ \E t \in Threads : ApiStep(t)
    \/ \E t \in Threads : AcquireLock(t)
    \/ \E t \in Threads : GuardStep(t)
    \/ \E t \in Threads : LoopStep(t)
    \/ \E t \in Threads : ReleaseLock(t)

ThreadSpec == Init /\ [][ThreadNext]_vars

QueryNext == AnalyzeQuery

QuerySpec == Init /\ [][QueryNext]_vars

\* ------------------------------------------------------------------------
\* Properties
\* ------------------------------------------------------------------------

Resolved(op) == call.op = op /\ ~call.ret.raised /\ call.ret.success
CandidateCodes(cands) == {cands[i].code : i \in 1..Len(cands)}

\* The step is a process_selection call that found a session and whose input
\* validate_selection judges as given (valid, or invalid without raising).
SelectionStep(valid) ==
    /\ call'.op = "process_selection"
    /\ pending # None
    /\ LET v == validate_selection(call'.code, pending[1].candidates)
       IN ~v.raised /\ v.success = valid

\* C1: a code returned as resolved is a key of the catalog: resolved_id of
\* resolve_indicator with success, the code of resolve_code with success, and
\* the code of process_selection with completed when every candidate of the
\* session is a record of the catalog.
C1_ResolvedFromCatalog ==
    /\ []((Resolved("resolve_indicator") \/ Resolved("resolve_code"))
              => call.ret.id # None /\ call.ret.id[1] \in codes)
    /\ [][(/\ call'.op = "process_selection"
           /\ pending # None
           /\ CandidateCodes(pending[1].candidates) \subseteq codes
           /\ ~call'.ret.raised
           /\ call'.ret.success)
              => call'.ret.id # None /\ call'.ret.id[1] \in codes']_vars

C1_Witness ==
    /\ Resolved("process_selection")
    /\ call.ret.id # None
    /\ call.ret.id[1] \in codes
    /\ trace = <<"start", "valid">>

\* C2: once the catalog was loaded from the TSV file, load with
\* from_tsv=False changes nothing: neither the records, nor the keys, nor the
\* loaded flag, nor the source flag.
C2_PartialLoadIgnored ==
    [][(from_tsv /\ call'.op = "load" /\ ~call'.flag)
           => /\ indicators' = indicators
              /\ codes' = codes
              /\ loaded' = loaded
              /\ from_tsv' = from_tsv]_vars

C2_Witness ==
    /\ call.op = "load"
    /\ ~call.flag
    /\ from_tsv
    /\ codes = {POBLACION, PARO}

\* C3 (as the specification states it): once the catalog was loaded from the
\* TSV file, load with from_tsv=True changes nothing either.
C3_SecondTsvLoadIgnored ==
    [][(from_tsv /\ call'.op = "load" /\ call'.flag)
           => /\ indicators' = indicators
              /\ codes' = codes]_vars

\* C4: for every key c of a catalog loaded from the TSV file,
\* resolve_indicator(c) returns success with resolved_id = normalize(c), no
\* candidates and needs_selection false.
C4_CatalogKeyResolves ==
    (call.op = "resolve_indicator" /\ from_tsv /\ call.code \in codes)
        => /\ ~call.ret.raised
           /\ call.ret.success
           /\ call.ret.id = Some(normalize_code(call.code))
           /\ call.ret.candidates = << >>
           /\ ~call.ret.needs_selection

C4_Witness ==
    /\ Resolved("resolve_indicator")
    /\ from_tsv
    /\ call.code = POBLACION
    /\ call.code \in codes
    /\ call.ret.id = Some(POBLACION)

\* C5 (as the specification states it): for every input that is_valid
\* accepts, resolve_indicator returns success with resolved_id =
\* normalize(code).
C5_ValidInputResolves ==
    (call.op = "resolve_indicator" /\ is_valid(Cache, call.code))
        => /\ ~call.ret.raised
           /\ call.ret.success
           /\ call.ret.id = Some(normalize_code(call.code))

\* C6 (as the specification states it): for every code that is_valid
\* rejects, resolve_indicator returns success false and no resolved_id, with
\* needs_selection true exactly when there are candidates, and nothing else.
C6_InvalidInputOutcomes ==
    (call.op = "resolve_indicator" /\ ~is_valid(Cache, call.code))
        => /\ ~call.ret.raised
           /\ ~call.ret.success
           /\ call.ret.id = None
           /\ call.ret.needs_selection <=> (call.ret.candidates # << >>)

\* C7 (as the specification states it): on a catalog with POBLACION and
\* without POBLACION_ISLA, resolve_indicator("POBLACION_ISLA") returns success
\* false and needs_selection true with POBLACION among the candidates.
C7_PoblacionAmongCandidates ==
    (/\ call.op = "resolve_indicator"
     /\ call.code = POBLACION_ISLA
     /\ call.limit = DefaultLimit
     /\ POBLACION \in codes
     /\ POBLACION_ISLA \notin codes)
        => /\ ~call.ret.raised
           /\ ~call.ret.success
           /\ call.ret.needs_selection
           /\ POBLACION \in CandidateCodes(call.ret.candidates)

C9_ValidInputCompletes ==
    [][SelectionStep(TRUE) =>
          /\ ~call'.ret.raised
          /\ call'.ret.success
          /\ call'.ret.id # None
          /\ call'.ret.id[1] \in CandidateCodes(pending[1].candidates)
          /\ pending' = None]_vars

C9_Witness ==
    /\ Resolved("process_selection")
    /\ pending = None
    /\ trace = <<"start", "invalid", "valid">>

\* C10: without a session, process_selection returns completed false, no
\* code and the message that no selection is pending; it does not raise and
\* there is still no session.
C10_NoSessionNoSelection ==
    [][(call'.op = "process_selection" /\ pending = None) =>
          /\ ~call'.ret.raised
          /\ ~call'.ret.success
          /\ call'.ret.id = None
          /\ call'.ret.msg.kind = "no_pending"
          /\ pending' = None]_vars

C10_Witness ==
    /\ call.op = "process_selection"
    /\ trace = <<"start", "cancel", "none">>
    /\ call.ret.msg.kind = "no_pending"
    /\ pending = None

\* C11: cancel_selection leaves no session, whatever the attempt count and
\* also when there was none; from a cancel to the next start_selection
\* has_pending_selection() is false and process_selection reports that no
\* selection is pending.
C11_CancelClearsSession ==
    /\ [][call'.op = "cancel_selection" => ~has_pending_selection(pending')]_vars
    /\ [][(~has_pending_selection(pending) /\ call'.op # "start_selection")
              => ~has_pending_selection(pending')]_vars
    /\ []((\E i \in 1..Len(trace) : trace[i] = "cancel")
              => /\ ~has_pending_selection(pending)
                 /\ call.op = "process_selection"
                        => ~call.ret.success /\ call.ret.msg.kind = "no_pending")

C11_Witness ==
    /\ call.op = "process_selection"
    /\ trace = <<"start", "invalid", "cancel", "none">>
    /\ ~has_pending_selection(pending)
    /\ call.ret.msg.kind = "no_pending"

\* The input, trimmed, is written in decimal digits only, and the number it
\* writes.
DecimalInput(input) ==
    LET t == Strip(input)
    IN t # << >> /\ \A i \in 1..Len(t) : t[i] \in AsciiDigits
DecimalValue(input) == ToInt(Strip(input))

C13_SelectionByExactCode ==
    [][(/\ call'.op = "process_selection"
        /\ pending # None
        /\ ~(DecimalInput(call'.code)
             /\ DecimalValue(call'.code) \in 1..Len(pending[1].candidates))
        /\ Upper(Strip(call'.code)) \in CandidateCodes(pending[1].candidates))
          => /\ ~call'.ret.raised
             /\ call'.ret.success
             /\ call'.ret.id = Some(Upper(Strip(call'.code)))]_vars

\* What the find_similar call of validate_code yields for a code that is not
\* valid: nothing for the empty code, which never gets that far.
Suggestions(c, code) ==
    IF code = << >> THEN {<< >>}
    ELSE {r.value : r \in {o \in find_similar(c, Upper(code), ValidatorLimit) : ~o.raised}}

\* C14: for a code that is not in the catalog, resolve_code returns success
\* with the code of the suggestion exactly when find_similar yields exactly
\* one suggestion; with none, or with two or more, it returns failure and
\* the code as it was passed.
C14_AutoResolveOnlySingle ==
    (call.op = "resolve_code" /\ ~is_valid(Cache, call.code))
        => /\ ~call.ret.raised
           /\ \E s \in Suggestions(Cache, call.code) :
                  IF Len(s) = 1
                  THEN call.ret.success /\ call.ret.id = Some(s[1].code)
                  ELSE ~call.ret.success /\ call.ret.id = Some(call.code)

C14_Witness ==
    /\ call.op = "resolve_code"
    /\ call.code = <<"P">>
    /\ ~is_valid(Cache, call.code)
    /\ \E s \in Suggestions(Cache, call.code) : Len(s) = 2
    /\ ~call.ret.success
    /\ call.ret.id = Some(call.code)

\* The string with every o written with an acute accent.
Accented(s) ==
    [i \in 1..Len(s) |-> IF s[i] = "o" THEN "o'" ELSE IF s[i] = "O" THEN "O'" ELSE s[i]]

\* C15: normalize_code is idempotent, and letter case, accents and
\* surrounding whitespace do not change its result: the upper-case, the
\* lower-case, the accented, the unaccented, the padded and the trimmed
\* spelling of a string all normalize to the same key ("POBLACIÓN",
\* "poblacion" -> "POBLACION"; "Tasa_paro" -> "TASA_PARO"); the empty string
\* normalizes to the empty string.
C15_NormalizeIdempotentInsensitive ==
    /\ call.op \in {"resolve_indicator", "resolve_code"} =>
           LET x == call.code
               n == normalize_code(x)
           IN /\ normalize_code(n) = n
              /\ normalize_code(Upper(x)) = n
              /\ normalize_code(Lower(x)) = n
              /\ normalize_code(Accented(x)) = n
              /\ normalize_code(RemoveMn(NFD(x))) = n
              /\ normalize_code(<<" ">> \o x \o <<" ">>) = n
              /\ normalize_code(Strip(x)) = n
              /\ is_valid(Cache, x) <=> n \in codes
    /\ normalize_code(<<"P","O","B","L","A","C","I","O'","N">>) = POBLACION
    /\ normalize_code(Lower(POBLACION)) = POBLACION
    /\ normalize_code(<<"T","a","s","a","_","p","a","r","o">>)
           = <<"T","A","S","A","_","P","A","R","O">>
    /\ normalize_code(<< >>) = << >>

C15_Witness ==
    /\ call.op = "resolve_indicator"
    /\ call.code = <<"P","O","B","L","A","C","I","O'","N">>
    /\ normalize_code(call.code) = POBLACION
    /\ normalize_code(call.code) \in codes

\* C16 (as the specification states it): validate_indicator(code) reports
\* is_valid true exactly when normalize(code) is a key of the catalog; an
\* invented compound of a real code and the empty code are reported invalid.
C16_ValidIffNormalizedKey ==
    call.op = "validate_indicator"
        => /\ ~call.ret.raised
           /\ call.ret.success <=> (normalize_code(call.code) \in codes)

\* C17 (as the specification states it): resolve_indicator, validate_code,
\* resolve_code and process_selection return their result on every input and
\* in every state of the catalog and of the session; none of them raises.
C17_NoCallRaises ==
    call.op \in {"resolve_indicator", "validate_indicator", "resolve_code", "process_selection"}
        => ~call.ret.raised

\* What the sources supply at a call that reads them: the TSV file is missing
\* or has no indicator row, and the API fails or answers with no record.
TsvSuppliesNothing(env) ==
    \/ env.tsv.state = "missing"
    \/ env.tsv.state = "ok" /\ TsvIndicators(env.tsv.rows) = << >>
ApiSuppliesNothing(env) == ~env.api.ok \/ env.api.items = << >>
NotFoundResult(ret) ==
    /\ ~ret.raised
    /\ ~ret.success
    /\ ret.id = None
    /\ ret.candidates = << >>
    /\ ~ret.needs_selection

\* C18 (as the specification states it): a resolve_indicator call that finds
\* the TSV file missing or empty and the API failing or without records
\* returns NotFound and leaves the catalog not loaded, and a resolve_indicator
\* call on a catalog without records that finds a source with records loads
\* them.
C18_StaysUnloadedUntilSupplied ==
    /\ [](( /\ call.op = "resolve_indicator"
            /\ call.limit = DefaultLimit
            /\ call.env # NotRead
            /\ TsvSuppliesNothing(call.env)
            /\ ApiSuppliesNothing(call.env))
              => ~loaded /\ codes = {} /\ NotFoundResult(call.ret))
    /\ [][( /\ call'.op = "resolve_indicator"
            /\ codes = {}
            /\ call'.env # NotRead
            /\ ~(TsvSuppliesNothing(call'.env) /\ ApiSuppliesNothing(call'.env))
            /\ call'.env.tsv.state # "unreadable")
              => loaded' /\ codes' # {}]_vars

\* C19: for a query '<indicator words> <preposition> <dimension keyword>'
\* whose indicator words contain no keyword, analyze_query returns the
\* keyword among the dimensions, has_breakdown true, and as indicator_query
\* the indicator words (in lower case, whitespace collapsed) without the
\* phrase 'preposition + keyword'.
C19_BreakdownQueryAnalysed ==
    call.op = "analyze_query" =>
        \A w \in IndicatorWords, prep \in BREAKDOWN_PREPOSITIONS,
           k \in 1..Len(DIMENSION_KEYWORDS) :
            LET dim == DIMENSION_KEYWORDS[k].keyword
            IN call.code = BreakdownQuery(w, prep, dim)
                   => /\ \E i \in 1..Len(call.ret.dimensions) : call.ret.dimensions[i] = dim
                      /\ call.ret.has_breakdown
                      /\ call.ret.indicator_query = Collapse(Lower(w))
                      /\ Contains(call.ret.indicator_query, Collapse(Lower(w)))
                      /\ ~Contains(call.ret.indicator_query, dim)

C19_Witness ==
    /\ call.op = "analyze_query"
    /\ call.code = <<"t","a","s","a"," ","d","e"," ","p","a","r","o"," ","s","e","g","u'","n"," ","c","o","m","a","r","c","a">>
    /\ call.ret.dimensions = << <<"c","o","m","a","r","c","a">> >>
    /\ call.ret.has_breakdown
    /\ call.ret.indicator_query = <<"t","a","s","a"," ","d","e"," ","p","a","r","o">>

\* The keys in a containment relation, either way, with the query q.
KeysRelated(c, q) == {known \in c.codes : Contains(known, q) \/ Contains(q, known)}
\* find_similar goes on to the approximate matching: its first phase
\* collected nothing.
ApproximatePhase(c, code) == PartialMatches(c, Upper(code)) = {}

\* C20 (as the specification states it): a find_similar call that returns
\* gives at most limit records of the catalog; each has a key that contains
\* or is contained in the normalized query, or a key whose similarity to the
\* query is at least the cutoff; and the approximate matching is used only
\* when no key is in a containment relation with the normalized query.
C20_SimilarByNormalizedQuery ==
    (call.op = "find_similar" /\ ~call.ret.raised) =>
        LET related == KeysRelated(Cache, normalize_code(call.code))
            found == call.ret.value
        IN /\ Len(found) <= call.limit
           /\ \A i \in 1..Len(found) :
                  \E known \in codes :
                      /\ found[i] = InfoOf(Cache, known)
                      /\ \/ known \in related
                         \/ RatioGeq(Ratio(known, Upper(call.code)), CutoffNum, CutoffDen)
           /\ ApproximatePhase(Cache, call.code) => related = {}

\* The steps of a tool that reach the ISTAC client.
ClientSteps == {"get_client", "client.get_indicator", "client.get_indicator_data"}

\* C21: in every execution of get_indicator_info and get_indicator_data the
\* client is reached only after resolve_indicator returned success; when
\* resolve_indicator returns without success the tool returns the error
\* result with the candidates numbered from 1 and selection_required equal
\* to needs_selection, and never reaches the client.
C21_ClientOnlyAfterResolved ==
    call.op \in {"get_indicator_info", "get_indicator_data"} =>
        LET out == call.ret
            r == out.resolution
        IN /\ \A i \in 1..Len(out.steps) :
                  out.steps[i] \in ClientSteps
                      => /\ ~r.raised /\ r.success
                         /\ \E j \in 1..(i - 1) : out.steps[j] = "resolve_indicator"
           /\ (~r.raised /\ ~r.success)
                  => /\ ~out.raised
                     /\ out.kind = "code_not_found"
                     /\ Len(out.candidates) = Len(r.candidates)
                     /\ \A i \in 1..Len(out.candidates) :
                            /\ out.candidates[i].num = i
                            /\ out.candidates[i].code = r.candidates[i].code
                            /\ out.candidates[i].title = r.candidates[i].title
                     /\ out.selection_required = r.needs_selection
                     /\ \A i \in 1..Len(out.steps) : out.steps[i] \notin ClientSteps

C21_Witness ==
    /\ call.op = "get_indicator_data"
    /\ call.ret.resolution.success
    /\ call.ret.steps = <<"resolve_indicator", "get_client", "client.get_indicator_data">>
    /\ call.ret.kind = "data"

\* C22 (as the specification states it): a process_selection call on a
\* pending session adds one to attempts and leaves candidates and context as
\* they are; an invalid input that keeps the session pending is answered
\* with max_attempts - attempts remaining attempts, at least 1; and between
\* calls a pending session has 0 <= attempts < max_attempts.
C22_AttemptAccounting ==
    /\ [](pending # None
             => pending[1].attempts >= 0 /\ pending[1].attempts < pending[1].max_attempts)
    /\ [][(call'.op = "process_selection" /\ pending # None /\ pending' # None)
              => /\ pending'[1].attempts = pending[1].attempts + 1
                 /\ pending'[1].candidates = pending[1].candidates
                 /\ pending'[1].context = pending[1].context
                 /\ pending'[1].max_attempts = pending[1].max_attempts
                 /\ ~call'.ret.raised
                        => /\ ~call'.ret.success
                           /\ call'.ret.msg.remaining
                                  = Some(pending'[1].max_attempts - pending'[1].attempts)
                           /\ call'.ret.msg.remaining[1] >= 1]_vars

\* C23 (as the specification states it): for every limit, 0 included, a
\* resolve_indicator result that needs a selection carries at most limit
\* candidates.
C23_CandidatesWithinLimit ==
    (call.op = "resolve_indicator" /\ ~call.ret.raised /\ call.ret.needs_selection)
        => Len(call.ret.candidates) <= call.limit

\* C24: there is one session at most. start_selection leaves a session with
\* the candidates and the context it was called with, attempts = 0 and
\* max_attempts = 2, whether or not a session was pending; no other call
\* brings a session into being or changes the candidates of one; and a
\* process_selection call validates its input against the candidates of the
\* pending session, that is, of the latest start_selection.
C24_LatestSessionOnly ==
    /\ [](Len(pending) <= 1)
    /\ [][call'.op = "start_selection"
              => pending' = Some([candidates |-> call'.ret.candidates, attempts |-> 0,
                                  max_attempts |-> MaxAttempts, context |-> call'.code])]_vars
    /\ [][(call'.op # "start_selection" /\ pending' # None)
              => /\ pending # None
                 /\ pending'[1].candidates = pending[1].candidates
                 /\ pending'[1].context = pending[1].context]_vars
    /\ [][(call'.op = "process_selection" /\ pending # None)
              => LET v == validate_selection(call'.code, pending[1].candidates)
                 IN /\ call'.ret.raised = v.raised
                    /\ call'.ret.success = (~v.raised /\ v.success)
                    /\ call'.ret.id = v.id
                    /\ call'.ret.success
                           => call'.ret.id[1] \in CandidateCodes(pending[1].candidates)]_vars

\* A session of one conversation was pending with an attempt made, another
\* start_selection replaced it, and the reply was validated against the new
\* list.
C24_Witness ==
    /\ trace = <<"start", "valid">>
    /\ call.op = "process_selection"
    /\ call.ret.id = Some(<<"Z","Z","Z">>)
    /\ Cardinality(codes) >= 2

\* What a segment contributes, as the claim words it.
ListedPrefixes(seg) ==
    {k \in 1..Len(common_prefixes) :
        StartsWith(seg, common_prefixes[k]) /\ Len(seg) > Len(common_prefixes[k])}
Contribution(seg) ==
    IF Len(seg) > SplitThreshold /\ ListedPrefixes(seg) # {}
    THEN LET first == CHOOSE k \in ListedPrefixes(seg) : \A j \in ListedPrefixes(seg) : k <= j
             prefix == common_prefixes[first]
         IN <<prefix, SubSeq(seg, Len(prefix) + 1, Len(seg))>>
    ELSE <<seg>>

\* C25: extract_keywords splits the (upper-cased) code on '_'; a segment of
\* at most 6 characters is never split; a longer one that starts with a
\* listed prefix gives the first such prefix and the remainder, any other
\* segment gives itself; the keywords returned are these, in order and in
\* lower case, without those of 2 characters or fewer and the numeric ones;
\* the empty code gives the empty list.
C25_KeywordsOfSegments ==
    call.op = "extract_keywords" =>
        LET keywords == call.ret.value
            segs == Split(Upper(call.code), "_")
            given == Concat([i \in 1..Len(segs) |-> Contribution(segs[i])])
        IN /\ ~call.ret.raised
           /\ \A i \in 1..Len(segs) :
                  Len(segs[i]) <= SplitThreshold => Contribution(segs[i]) = <<segs[i]>>
           /\ keywords = SelectSeq([i \in 1..Len(given) |-> Lower(given[i])],
                                   LAMBDA k : Len(k) > MinKeywordLen /\ ~IsDigitStr(k))
           /\ \A i \in 1..Len(keywords) :
                  /\ keywords[i] = Lower(keywords[i])
                  /\ Len(keywords[i]) > 2
                  /\ ~IsDigitStr(keywords[i])
           /\ call.code = << >> => keywords = << >>

C25_Witness ==
    /\ call.op = "extract_keywords"
    /\ call.code = <<"s","e","x","o","e","d","a","d","_","I","S","L","A","S">>
    /\ call.ret.value = << <<"s","e","x","o">>, <<"e","d","a","d">>, <<"i","s","l","a","s">> >>

\* C26 (as the specification states it): load with from_tsv=False on a
\* catalog that has records, wherever they came from, removes no code,
\* leaves the record of every code as it was, and adds none.
C26_PartialLoadOnlySeeds ==
    [][(call'.op = "load" /\ ~call'.flag /\ codes # {})
           => /\ codes \subseteq codes'
              /\ \A k \in codes : DictGet(indicators', k) = DictGet(indicators, k)
              /\ codes' = codes]_vars

\* The keys of the record map.
RecordKeys == {indicators[i].code : i \in 1..Len(indicators)}

\* C27: after any sequence of load calls the set of codes is the key set of
\* the record map, no key occurs twice, every record's code is not empty and
\* is a fixed point of normalize_code, and count() never decreases.
C27_CatalogStructure ==
    /\ [](/\ codes = RecordKeys
          /\ \A i, j \in 1..Len(indicators) :
                 indicators[i].code = indicators[j].code => i = j
          /\ \A i \in 1..Len(indicators) :
                 /\ indicators[i].code # << >>
                 /\ normalize_code(indicators[i].code) = indicators[i].code
          /\ count(Cache) = Len(indicators))
    /\ [][count(Cache) <= Cardinality(codes')]_vars

C27_Witness ==
    /\ call.op = "load"
    /\ codes = {FAKE, POBLACION, ISLAS}
    /\ Len(indicators) = 3

LoaderOps == {"ensure_cache_loaded", "load_cache_from_tsv", "load_cache_from_api"}
TsvSupplies(env) == env.tsv.state = "ok" /\ TsvIndicators(env.tsv.rows) # << >>

\* C28: ensure_cache_loaded on a catalog that is not loaded loads the TSV
\* file when it has indicators, whatever the API would answer, and turns to
\* the API only when the file is missing, empty or unreadable; and once the
\* catalog is loaded, ensure_cache_loaded, load_cache_from_tsv and
\* load_cache_from_api leave it as it is, so a catalog that an API load
\* marked loaded is never loaded from the TSV file by them.
C28_TsvFirstThenLatched ==
    /\ [][(call'.op = "ensure_cache_loaded" /\ ~loaded /\ TsvSupplies(call'.env))
              => /\ from_tsv'
                 /\ indicators' = load(Cache, TsvIndicators(call'.env.tsv.rows), TRUE).indicators]_vars
    /\ [][(call'.op = "ensure_cache_loaded" /\ ~loaded /\ ~TsvSupplies(call'.env))
              => /\ ~from_tsv'
                 /\ indicators' = IF call'.env.api.ok
                                   THEN load(Cache, call'.env.api.items, FALSE).indicators
                                   ELSE indicators]_vars
    /\ [][(call'.op \in LoaderOps /\ loaded)
              => /\ indicators' = indicators
                 /\ codes' = codes
                 /\ loaded' = loaded
                 /\ from_tsv' = from_tsv]_vars

\* The catalog was loaded from the API; load_cache_from_tsv, called with a
\* TSV file that has indicators, left it so.
C28_Witness ==
    /\ call.op = "load_cache_from_tsv"
    /\ TsvSupplies(call.env)
    /\ loaded /\ ~from_tsv
    /\ codes = {POBLACION, NUEVE}

\* Thread t is inside the with block of load.
InLoad(t) == threads.th[t].pc \in {"guard", "loop", "release"}
\* Both threads have returned from a call of op.
BothDone(op) == \A t \in Threads : threads.th[t].pc = "done" /\ threads.th[t].op = op
\* The cache after the load of thread a and then the load of thread b.
OneAfterTheOther(a, b) ==
    load(load(threads.start[1], threads.th[a].inds, threads.th[a].flag),
         threads.th[b].inds, threads.th[b].flag)

\* C29: of two concurrent load calls only one is inside load at a time (the
\* other has not started its loop or has finished it), and when both have
\* returned the catalog is the one that the two calls give when run one after
\* the other, in one of the two orders.
C29_ConcurrentLoadsSerialised ==
    /\ ~(InLoad(1) /\ InLoad(2))
    /\ \A t \in Threads : InLoad(t) => lock = t
    /\ BothDone("load") => Cache \in {OneAfterTheOther(1, 2), OneAfterTheOther(2, 1)}

\* Two loads that give different catalogs in the two orders have returned.
C29_Witness ==
    /\ BothDone("load")
    /\ OneAfterTheOther(1, 2) # OneAfterTheOther(2, 1)
    /\ Cache = OneAfterTheOther(2, 1)

\* C30 (as the specification states it): when two concurrent
\* ensure_cache_loaded calls on a catalog that is not loaded have returned,
\* IndicatorCache.load was executed once at most.
C30_LoadedOnce ==
    (BothDone("ensure_cache_loaded") /\ ~threads.start[1].loaded) => threads.loads <= 1

====
